---------------------------- MODULE Spec2Model ----------------------------
(* Model of src/main.py: the forecast pipeline                             *)
(*   main = download_file_from_ftp ; parse_forecast ; save_forecast_to_txt *)
(* wrapped in one try/except that logs and swallows every exception.       *)
(*                                                                         *)
(* Strings read from the XML document (attribute values, element text) are *)
(* sequences of tokens; a whitespace character is always a token of its    *)
(* own, so str.strip() is the removal of leading and trailing whitespace   *)
(* tokens.  Timestamps are sequences of single characters, so that         *)
(* strptime and the [-3] indexing are modelled character by character.     *)
(* Strings the program produces (lines, log messages, the output file) are *)
(* TLA+ strings.  An absent attribute and an empty one are both <<>>: the  *)
(* code reads attributes with a "" default (lines 111, 119, 136, 154) or   *)
(* compares them with a non-empty literal (lines 89, 93); absent element   *)
(* text and empty text are both <<>> ((t.text or ""), lines 94, 104, 155). *)
(* Python's None is <<>> and a value v is <<v>> wherever both can occur.   *)
EXTENDS Integers, Sequences, FiniteSets, TLC

----------------------------------------------------------------------------
(* Constants of the program *)

LOCATION == "Far North West Coast: Sandy Cape to Stanley"

TIMESTAMP_FORMAT == "%Y-%m-%dT%H:%M:%S%z"

None == <<>>

Some(v) == <<v>>

----------------------------------------------------------------------------
(* Strings *)

Whitespace == {" ", "\t", "\n"}

RECURSIVE Str(_)
\* the Python str whose tokens are s
Str(s) == IF s = <<>> THEN "" ELSE Head(s) \o Str(Tail(s))

RECURSIVE lstrip(_)
lstrip(s) ==
    IF s # <<>> /\ Head(s) \in Whitespace THEN lstrip(Tail(s)) ELSE s

RECURSIVE rstrip(_)
rstrip(s) ==
    IF s # <<>> /\ s[Len(s)] \in Whitespace
    THEN rstrip(SubSeq(s, 1, Len(s) - 1))
    ELSE s

\* str.strip()
strip(s) == rstrip(lstrip(s))

\* str.replace(old, new) for a one-character old
replace(s, old, new) == [i \in 1..Len(s) |-> IF s[i] = old THEN new ELSE s[i]]

RECURSIVE join(_, _)
\* sep.join(lines)
join(sep, lines) ==
    IF lines = <<>> THEN ""
    ELSE IF Len(lines) = 1 THEN lines[1]
    ELSE lines[1] \o sep \o join(sep, Tail(lines))

DigitChars == <<"0", "1", "2", "3", "4", "5", "6", "7", "8", "9">>

IsDigit(c) == \E i \in 1..10 : DigitChars[i] = c

DigitVal(c) == (CHOOSE i \in 1..10 : DigitChars[i] = c) - 1

\* str(n) for 0 <= n <= 99
NumStr(n) ==
    IF n < 10 THEN DigitChars[n + 1]
    ELSE DigitChars[(n \div 10) + 1] \o DigitChars[(n % 10) + 1]

\* the zero-padded two-digit rendering of strftime's %M
TwoDigits(n) == DigitChars[(n \div 10) + 1] \o DigitChars[(n % 10) + 1]

----------------------------------------------------------------------------
(* datetime.strptime(s, "%Y-%m-%dT%H:%M:%S%z")                             *)
(* The model accepts the fixed-width form YYYY-MM-DDTHH:MM:SS+HHMM and, as *)
(* Python 3.7+ does, the offset written +HH:MM.  Every timestamp the model *)
(* feeds it is either of that form or rejected by Python as well.          *)

AllDigits(s, from, to) == \A i \in from..to : IsDigit(s[i])

Num2(s, i) == 10 * DigitVal(s[i]) + DigitVal(s[i + 1])

Num4(s, i) == 100 * Num2(s, i) + Num2(s, i + 2)

IsLeap(y) == (y % 4 = 0 /\ y % 100 # 0) \/ y % 400 = 0

DaysInMonth(y, m) ==
    IF m = 2 THEN (IF IsLeap(y) THEN 29 ELSE 28)
    ELSE IF m \in {4, 6, 9, 11} THEN 30 ELSE 31

NotParsed == [ok |-> FALSE]

strptime(s) ==
    LET n == Len(s)
        shape ==
            /\ n \in {24, 25}
            /\ AllDigits(s, 1, 4) /\ s[5] = "-"
            /\ AllDigits(s, 6, 7) /\ s[8] = "-"
            /\ AllDigits(s, 9, 10) /\ s[11] = "T"
            /\ AllDigits(s, 12, 13) /\ s[14] = ":"
            /\ AllDigits(s, 15, 16) /\ s[17] = ":"
            /\ AllDigits(s, 18, 19)
            /\ s[20] \in {"+", "-"}
            /\ AllDigits(s, 21, 22)
            /\ IF n = 25 THEN s[23] = ":" /\ AllDigits(s, 24, 25)
                         ELSE AllDigits(s, 23, 24)
    IN  IF ~shape THEN NotParsed
        ELSE LET y  == Num4(s, 1)
                 mo == Num2(s, 6)
                 d  == Num2(s, 9)
                 h  == Num2(s, 12)
                 mi == Num2(s, 15)
                 se == Num2(s, 18)
                 oh == Num2(s, 21)
                 om == Num2(s, n - 1)
                 sg == IF s[20] = "-" THEN -1 ELSE 1
             IN  IF /\ y >= 1 /\ mo \in 1..12 /\ d \in 1..DaysInMonth(y, mo)
                    /\ h \in 0..23 /\ mi \in 0..59 /\ se \in 0..59
                    /\ om \in 0..59
                 THEN [ok |-> TRUE, year |-> y, month |-> mo, day |-> d,
                       hour |-> h, minute |-> mi, second |-> se,
                       utcoffset |-> sg * (60 * oh + om)]
                 ELSE NotParsed

----------------------------------------------------------------------------
(* strftime *)

WeekdayNames ==
    <<"Sunday", "Monday", "Tuesday", "Wednesday", "Thursday", "Friday",
      "Saturday">>

MonthShift == <<0, 3, 2, 5, 0, 3, 5, 1, 4, 6, 2, 4>>

\* dt.strftime("%A"): the weekday of the date as written, in the C locale
strftime_A(dt) ==
    LET y == IF dt.month < 3 THEN dt.year - 1 ELSE dt.year
        w == (y + (y \div 4) - (y \div 100) + (y \div 400)
                + MonthShift[dt.month] + dt.day) % 7
    IN  WeekdayNames[w + 1]

\* dt.strftime("%-I:%M%p").lower()
strftime_IMp_lower(dt) ==
    LET h12 == IF dt.hour % 12 = 0 THEN 12 ELSE dt.hour % 12
    IN  NumStr(h12) \o ":" \o TwoDigits(dt.minute)
            \o (IF dt.hour < 12 THEN "am" ELSE "pm")

----------------------------------------------------------------------------
(* get_issue_descriptor, lines 47-66.  The result is [raised, value]:      *)
(* raised is "" when the function returns value, else the exception.       *)

\* part_of_day with the bounds of the buckets taken inclusive
part_of_day_inclusive(hour) ==
    IF 5 <= hour /\ hour <= 12 THEN "morning"
    ELSE IF 12 <= hour /\ hour <= 17 THEN "afternoon"
    ELSE IF 17 <= hour /\ hour <= 21 THEN "evening"
    ELSE "night"

part_of_day(hour) ==
    IF 5 <= hour /\ hour < 12 THEN "morning"
    ELSE IF 12 <= hour /\ hour < 17 THEN "afternoon"
    ELSE IF 17 <= hour /\ hour < 21 THEN "evening"
    ELSE "night"

\* lines 49-50; the caller guarantees a non-empty string
strip_offset_colon(s) ==
    IF s[Len(s) - 2] = ":"
    THEN SubSeq(s, 1, Len(s) - 3) \o SubSeq(s, Len(s) - 1, Len(s))
    ELSE s

get_issue_descriptor(issue_time_str) ==
    IF Len(issue_time_str) < 3
    THEN [raised |-> "IndexError", value |-> ""]
    ELSE LET dt == strptime(strip_offset_colon(issue_time_str))
         IN  IF ~dt.ok
             THEN [raised |-> "ValueError", value |-> ""]
             ELSE [raised |-> "",
                   value |-> "Issued " \o strftime_A(dt) \o " "
                                \o part_of_day(dt.hour) \o " at "
                                \o strftime_IMp_lower(dt) \o "."]

----------------------------------------------------------------------------
(* The XML document.  A well-formed document is                            *)
(*   [wellformed |-> TRUE,                                                 *)
(*    amoc     : None, or Some of [issue_time_local : characters],         *)
(*    warnings : the warning-summary texts, in document order,             *)
(*    areas    : the area elements, in document order, each                *)
(*       [description : tokens,                                            *)
(*        periods : its forecast-period children, in document order, each  *)
(*           [start_time_local : characters,                               *)
(*            texts : its text children, each [type, text : tokens]]]]     *)
(* Anything that is not well-formed XML (a truncated transfer included) is *)
(* NotXml.                                                                 *)

NotXml == [wellformed |-> FALSE, amoc |-> <<>>, warnings |-> <<>>, areas |-> <<>>]

Info(msg) == [level |-> "INFO", msg |-> msg]

Warning(msg) == [level |-> "WARNING", msg |-> msg]

ValueError(s) ==
    [type |-> "ValueError",
     msg |-> "time data '" \o Str(s) \o "' does not match format '"
                \o TIMESTAMP_FORMAT \o "'"]

IndexError == [type |-> "IndexError", msg |-> "string index out of range"]

ParseError == [type |-> "ParseError", msg |-> "not well-formed"]

TransferError == [type |-> "ftplib.Error", msg |-> "transfer failed"]

NoError == [type |-> "", msg |-> ""]

----------------------------------------------------------------------------
(* parse_forecast, lines 70-171.  Each section yields the lines it appends *)
(* to forecast_lines and the entries it logs.                              *)

\* lines 77-85: the issue time of <amoc>; get_issue_descriptor may raise
issue_section(root) ==
    IF root.amoc = None \/ root.amoc[1].issue_time_local = <<>>
    THEN [raised |-> NoError, lines |-> <<>>, log |-> <<>>]
    ELSE LET s == root.amoc[1].issue_time_local
             r == get_issue_descriptor(s)
         IN  IF r.raised = "IndexError"
             THEN [raised |-> IndexError, lines |-> <<>>, log |-> <<>>]
             ELSE IF r.raised = "ValueError"
             THEN [raised |-> ValueError(strip_offset_colon(s)),
                   lines |-> <<>>, log |-> <<>>]
             ELSE [raised |-> NoError,
                   lines |-> <<r.value, "">>,
                   log |-> <<Info("Issue time descriptor: " \o r.value)>>]

\* lines 93-99: one text element of the synoptic forecast-period
synoptic_text(t) ==
    LET synoptic_text_ == strip(t.text)
    IN  IF Str(t.type) = "synoptic_situation" /\ synoptic_text_ # <<>>
        THEN [lines |-> <<"Weather Situation:", Str(synoptic_text_), "">>,
              log |-> <<Info("Found synoptic situation: "
                                \o Str(synoptic_text_))>>]
        ELSE [lines |-> <<>>, log |-> <<>>]

RECURSIVE synoptic_texts(_)
\* lines 92-99: the loop over forecast_period.findall("text")
synoptic_texts(texts) ==
    IF texts = <<>> THEN [lines |-> <<>>, log |-> <<>>]
    ELSE LET h == synoptic_text(Head(texts))
             r == synoptic_texts(Tail(texts))
         IN  [lines |-> h.lines \o r.lines, log |-> h.log \o r.log]

\* line 89, with the break of line 100: the index of the first area that is
\* described "Tasmania", 0 if there is none
tasmania_area(areas) ==
    IF \E i \in 1..Len(areas) : Str(areas[i].description) = "Tasmania"
    THEN CHOOSE i \in 1..Len(areas) :
            /\ Str(areas[i].description) = "Tasmania"
            /\ \A j \in 1..(i - 1) : Str(areas[j].description) # "Tasmania"
    ELSE 0

\* lines 87-100: the synoptic summary, from the first forecast-period
synoptic_section(root) ==
    LET i == tasmania_area(root.areas)
    IN  IF i = 0 \/ root.areas[i].periods = <<>>
        THEN [lines |-> <<>>, log |-> <<>>]
        ELSE synoptic_texts(root.areas[i].periods[1].texts)

\* lines 102-108: the first warning-summary of the document
warning_section(root) ==
    IF root.warnings = <<>> \/ strip(root.warnings[1]) = <<>>
    THEN [lines |-> <<>>, log |-> <<>>]
    ELSE LET warning_text == Str(strip(root.warnings[1]))
         IN  [lines |-> <<"Warning Summary: " \o warning_text \o ".", "">>,
              log |-> <<Info("Found warning-summary: " \o warning_text)>>]

\* period_text without the test of line 156
period_text_unchecked(t) ==
    LET t_value == strip(t.text)
    IN  [lines |-> <<Str(replace(t.type, "_", " ")) \o ": " \o Str(t_value)>>,
         log |-> <<Info("Found text: " \o Str(t_value))>>]

\* lines 154-160: one text element of the forecast-period that is used
period_text(t) ==
    LET t_value == strip(t.text)
    IN  IF t_value # <<>>
        THEN [lines |-> <<Str(replace(t.type, "_", " ")) \o ": "
                            \o Str(t_value)>>,
              log |-> <<Info("Found text: " \o Str(t_value))>>]
        ELSE [lines |-> <<>>, log |-> <<>>]

RECURSIVE period_texts(_)
\* lines 153-160: the loop over first_period.findall("text")
period_texts(texts) ==
    IF texts = <<>> THEN [lines |-> <<>>, log |-> <<>>]
    ELSE LET h == period_text(Head(texts))
             r == period_texts(Tail(texts))
         IN  [lines |-> h.lines \o r.lines, log |-> h.log \o r.log]

\* lines 119-123, 136-142: the start-time-local attribute, parsed
start_time(period) == strptime(strip(period.start_time_local))

\* used_period as the period the loop is at
loop_period(forecast_periods, period) == period

\* line 135: the forecast-period whose text is extracted
used_period(forecast_periods, period) == forecast_periods[1]

RECURSIVE period_loop(_, _, _, _)
\* lines 118-163: the loop over forecast_periods from the i-th on.  returned
\* says whether the loop left parse_forecast with a return statement.
period_loop(forecast_periods, i, forecast_lines, log) ==
    IF i > Len(forecast_periods)
    THEN [returned |-> FALSE, ret |-> None, log |-> log]
    ELSE
    LET period == forecast_periods[i]
        start_time_str == strip(period.start_time_local)
    IN  IF ~start_time(period).ok
        THEN period_loop(forecast_periods, i + 1, forecast_lines,
                 Append(log, Warning("Could not parse start-time-local: "
                                        \o Str(start_time_str))))
        ELSE
        LET log1 == Append(log,
                        Info("Checking forecast-period with start-time-local="
                                \o Str(start_time_str)))
            first_period == used_period(forecast_periods, period)
            first_str == strip(first_period.start_time_local)
        IN  IF ~start_time(first_period).ok
            THEN [returned |-> TRUE, ret |-> None,
                  log |-> Append(log1,
                            Warning("Could not parse start-time-local: "
                                        \o Str(first_str)))]
            ELSE
            LET t == period_texts(first_period.texts)
            IN  [returned |-> TRUE,
                 ret |-> Some(join("\n", forecast_lines \o t.lines)),
                 log |-> log1
                    \o <<Info("Using forecast-period with start-time-local="
                                \o Str(first_str))>>
                    \o t.log
                    \o <<Info("Successfully extracted forecast.")>>]

\* lines 111-112: does the area carry the configured description
is_location(area) == Str(strip(area.description)) = LOCATION

\* location_area as the last area that matches
last_location_area(areas) ==
    IF \E i \in 1..Len(areas) : is_location(areas[i])
    THEN CHOOSE i \in 1..Len(areas) :
            /\ is_location(areas[i])
            /\ \A j \in (i + 1)..Len(areas) : ~is_location(areas[j])
    ELSE 0

\* lines 110-112: the index of the first area whose description is
\* LOCATION, 0 if there is none
location_area(areas) ==
    IF \E i \in 1..Len(areas) : is_location(areas[i])
    THEN CHOOSE i \in 1..Len(areas) :
            /\ is_location(areas[i])
            /\ \A j \in 1..(i - 1) : ~is_location(areas[j])
    ELSE 0

\* lines 110-171: the target area and its forecast-period
area_section(root, forecast_lines) ==
    LET i == location_area(root.areas)
    IN  IF i = 0
        THEN [ret |-> None,
              log |-> <<Info("Area with description='" \o LOCATION
                                \o "' not found in XML")>>]
        ELSE
        LET forecast_periods == root.areas[i].periods
            r == period_loop(forecast_periods, 1, forecast_lines,
                    <<Info("Found forecast area: " \o LOCATION),
                      Info("Total forecast-periods found: "
                            \o NumStr(Len(forecast_periods)))>>)
        IN  IF r.returned THEN [ret |-> r.ret, log |-> r.log]
            ELSE [ret |-> None,
                  log |-> Append(r.log,
                            Info("'" \o LOCATION \o "' area found but no "
                                \o "forecast-period with future "
                                \o "start-time-local"))]

\* lines 70-171.  xml_file is the content of the local file; now is the
\* value of line 74, which nothing below it reads.
parse_forecast(xml_file, now) ==
    IF ~xml_file.wellformed
    THEN [raised |-> ParseError, ret |-> None, log |-> <<>>]
    ELSE
    LET root == xml_file
        issue == issue_section(root)
    IN  IF issue.raised # NoError
        THEN [raised |-> issue.raised, ret |-> None, log |-> issue.log]
        ELSE
        LET synoptic == synoptic_section(root)
            warning == warning_section(root)
            area == area_section(root,
                        issue.lines \o synoptic.lines \o warning.lines)
        IN  [raised |-> NoError, ret |-> area.ret,
             log |-> issue.log \o synoptic.log \o warning.log \o area.log]

----------------------------------------------------------------------------
(* save_forecast_to_txt, lines 187-193.  file is the content of            *)
(* forecast.txt, None while the file does not exist.                       *)

LOCAL_XML_PATH == "IDT12329.xml"

OUTPUT_TXT_PATH == "forecast.txt"

\* save_forecast_to_txt with the file opened before the text is tested
save_opens_first(forecast_text, file) ==
    IF forecast_text # None /\ forecast_text[1] # ""
    THEN [file |-> Some(forecast_text[1]),
          log |-> <<Info("Forecast saved to " \o OUTPUT_TXT_PATH)>>]
    ELSE [file |-> Some(""), log |-> <<Info("No forecast text to save.")>>]

save_forecast_to_txt(forecast_text, file) ==
    IF forecast_text # None /\ forecast_text[1] # ""
    THEN [file |-> Some(forecast_text[1]),
          log |-> <<Info("Forecast saved to " \o OUTPUT_TXT_PATH)>>]
    ELSE [file |-> file, log |-> <<Info("No forecast text to save.")>>]

----------------------------------------------------------------------------
(* main, lines 196-203 *)

\* caught_by_main for "except ftplib.all_errors"
caught_if_transfer(e) == e.type = "ftplib.Error"

\* line 202: the exceptions "except Exception" catches; every exception the
\* three steps raise derives from Exception
caught_by_main(e) ==
    e.type \in {"ftplib.Error", "ParseError", "ValueError", "IndexError"}

\* line 203
error_entry(e) == Info("An error occurred: " \o e.msg)

----------------------------------------------------------------------------
(* Bounds of the documents the model reads *)

MaxAreas == 3

MaxPeriods == 3

MaxTexts == 2

MaxWarnings == 2

SeqsUpTo(S, n) == UNION {[1..k -> S] : k \in 0..n}

----------------------------------------------------------------------------
(* Timestamps of the documents *)

Chars2(n) == <<DigitChars[(n \div 10) + 1], DigitChars[(n % 10) + 1]>>

\* YYYY-MM-DDTHH:MM:SS followed by the offset
Timestamp(y, mo, d, h, mi, offset) ==
    Chars2(y \div 100) \o Chars2(y % 100) \o <<"-">> \o Chars2(mo) \o <<"-">>
        \o Chars2(d) \o <<"T">> \o Chars2(h) \o <<":">> \o Chars2(mi)
        \o <<":", "0", "0">> \o offset

Plus1000Colon == <<"+", "1", "0", ":", "0", "0">>

Plus1000 == <<"+", "1", "0", "0", "0">>

Minus0330Colon == <<"-", "0", "3", ":", "3", "0">>

\* "2024-05-01TH:00:00+10:00"
May1(h) == Timestamp(2024, 5, 1, h, 0, Plus1000Colon)

\* "2024-05-01T10:00": no seconds and no offset, which strptime rejects
Malformed == SubSeq(May1(10), 1, 16)

\* the values datetime.now(timezone.utc).astimezone() takes in the model:
\* 10:00 and 16:00 of 2024-05-01, at +10:00
NowTimes == {strptime(May1(10)), strptime(May1(16))}

\* start-time-local: absent, malformed, and 09:00, 11:00, 15:00 of that day
StartTimes == {<<>>, Malformed, May1(9), May1(11), May1(15)}

\* the instant of an aware datetime, in minutes; days are counted within
\* one month, which is all the comparisons of the model need
Instant(dt) ==
    ((dt.year * 12 + dt.month) * 31 + dt.day) * 1440 + dt.hour * 60
        + dt.minute - dt.utcoffset

----------------------------------------------------------------------------
(* Documents *)

Doc(amoc, warnings, areas) ==
    [wellformed |-> TRUE, amoc |-> amoc, warnings |-> warnings,
     areas |-> areas]

Text(type, text) == [type |-> type, text |-> text]

Forecast == <<"forecast">>

Synoptic == <<"synoptic", "_", "situation">>

Precis == <<"precis">>

TextValues == {<<>>, <<" ">>, <<" ", "a", " ">>, <<"b">>}

LocationDesc == <<LOCATION>>

TasmaniaDesc == <<"Tasmania">>

\* a period with a valid start and non-empty texts
PeriodA ==
    [start_time_local |-> May1(11),
     texts |-> <<Text(Synoptic, <<"s">>), Text(Forecast, <<" ", "a", " ">>)>>]

\* a period with a valid start whose texts are whitespace
PeriodB ==
    [start_time_local |-> May1(15),
     texts |-> <<Text(Synoptic, <<" ">>), Text(Forecast, <<"\n">>)>>]

\* a period of every kind of start time, its text naming the kind
TimedPeriods ==
    {[start_time_local |-> <<>>,
      texts |-> <<Text(Forecast, <<"absent">>)>>],
     [start_time_local |-> Malformed,
      texts |-> <<Text(Forecast, <<"malformed">>)>>],
     [start_time_local |-> May1(9),
      texts |-> <<Text(Forecast, <<"nine">>)>>],
     [start_time_local |-> May1(11),
      texts |-> <<Text(Forecast, <<"eleven">>)>>],
     [start_time_local |-> May1(15),
      texts |-> <<Text(Precis, <<"fifteen">>)>>]}

\* one target area with up to MaxPeriods periods
PeriodDocs ==
    {Doc(None, w, <<[description |-> LocationDesc, periods |-> ps]>>) :
        w \in {<<>>, << <<"w">> >>},
        ps \in SeqsUpTo(TimedPeriods, MaxPeriods)}

\* up to MaxAreas areas, the target description with and without padding
AreaDocs ==
    {Doc(None, <<>>, as) :
        as \in SeqsUpTo([description : {LocationDesc, <<" ", LOCATION>>,
                                        TasmaniaDesc},
                         periods : {<<>>, <<PeriodA>>, <<PeriodB>>}],
                        MaxAreas)}

\* a summary area and the target area, each with one period that holds the
\* same up to MaxTexts text elements of every kind
TextDocs ==
    {Doc(None, <<>>,
         <<[description |-> d,
            periods |-> <<[start_time_local |-> May1(11), texts |-> ts]>>],
           [description |-> LocationDesc,
            periods |-> <<[start_time_local |-> May1(11), texts |-> ts]>>]>>) :
        d \in {TasmaniaDesc, <<"Tasmania", " ">>},
        ts \in SeqsUpTo([type : {Forecast, Synoptic, <<>>},
                         text : TextValues], MaxTexts)}

IssueTimes ==
    {<<>>, May1(6) , Malformed, <<"a", "b">>}

\* issue times and warning summaries of every kind
HeaderDocs ==
    {Doc(amoc, ws, as) :
        amoc \in {None} \cup {Some([issue_time_local |-> s]) : s \in IssueTimes},
        ws \in SeqsUpTo(TextValues, MaxWarnings),
        as \in {<<>>,
                <<[description |-> LocationDesc, periods |-> <<>>]>>,
                <<[description |-> LocationDesc, periods |-> <<PeriodA>>]>>,
                <<[description |-> TasmaniaDesc, periods |-> <<PeriodA>>],
                  [description |-> LocationDesc, periods |-> <<PeriodB>>]>>,
                <<[description |-> TasmaniaDesc, periods |-> <<PeriodB>>],
                  [description |-> LocationDesc, periods |-> <<PeriodB>>]>>}}

IssueDates == {<<2024, 5, 1>>, <<2024, 2, 29>>, <<2023, 12, 31>>}

IssueMinutes == {0, 5, 30, 59}

IssueAreas == <<[description |-> LocationDesc, periods |-> <<PeriodA>>]>>

\* every hour of the day as the issue time
IssueDocs ==
    {Doc(Some([issue_time_local |->
                Timestamp(d[1], d[2], d[3], h, mi, off)]), <<>>,
         IssueAreas) :
        d \in IssueDates, h \in 0..23, mi \in IssueMinutes,
        off \in {Plus1000Colon, Plus1000, Minus0330Colon}}

Documents ==
    {NotXml} \cup PeriodDocs \cup AreaDocs \cup TextDocs \cup HeaderDocs
        \cup IssueDocs

----------------------------------------------------------------------------
(* The state *)

VARIABLES
    pc,          \* the step main is about to run: fetch, parse, save, done
    remote,      \* the document the FTP server holds
    local_xml,   \* the content of LOCAL_XML_PATH, None while there is none
    now,         \* line 74, None before parse_forecast ran
    forecast,    \* line 200: the value parse_forecast returned, None or Some
    output_txt,  \* the content of OUTPUT_TXT_PATH, None while there is none
    old_output,  \* the content of OUTPUT_TXT_PATH when main started
    log,         \* the entries this run appended to forecast.log
    caught,      \* line 202: the exception main caught, NoError if none
    escaped      \* the exception that left main, NoError if none

vars ==
    <<pc, remote, local_xml, now, forecast, output_txt, old_output, log,
      caught, escaped>>

Init ==
    /\ pc = "fetch"
    /\ remote \in Documents
    /\ local_xml = None
    /\ now = None
    /\ forecast = None
    /\ output_txt \in {None, Some("stale forecast")}
    /\ old_output = output_txt
    /\ log = <<>>
    /\ caught = NoError
    /\ escaped = NoError

\* lines 202-203: what main does with an exception of its try block
Except(e, entries) ==
    /\ pc' = "done"
    /\ IF caught_by_main(e)
       THEN /\ caught' = e
            /\ log' = log \o entries \o <<error_entry(e)>>
            /\ UNCHANGED escaped
       ELSE /\ escaped' = e
            /\ log' = log \o entries
            /\ UNCHANGED caught

\* line 198, download_file_from_ftp returns (lines 35-44)
Download ==
    /\ pc = "fetch"
    /\ local_xml' = Some(remote)
    /\ log' = Append(log, Info("Downloaded: " \o LOCAL_XML_PATH))
    /\ pc' = "parse"
    /\ UNCHANGED <<remote, now, forecast, output_txt, old_output, caught,
                   escaped>>

\* line 198, download_file_from_ftp raises: before line 40 the local file is
\* as it was, from line 40 on it is truncated
DownloadFails ==
    /\ pc = "fetch"
    /\ \E opened \in BOOLEAN :
        local_xml' = IF opened THEN Some(NotXml) ELSE local_xml
    /\ Except(TransferError, <<>>)
    /\ UNCHANGED <<remote, now, forecast, output_txt, old_output>>

\* line 200
Parse ==
    /\ pc = "parse"
    /\ \E n \in NowTimes :
        LET r == parse_forecast(local_xml[1], n)
        IN  /\ now' = Some(n)
            /\ IF r.raised = NoError
               THEN /\ forecast' = r.ret
                    /\ log' = log \o r.log
                    /\ pc' = "save"
                    /\ UNCHANGED <<caught, escaped>>
               ELSE /\ Except(r.raised, r.log)
                    /\ UNCHANGED forecast
    /\ UNCHANGED <<remote, local_xml, output_txt, old_output>>

\* line 201
Save ==
    /\ pc = "save"
    /\ LET r == save_forecast_to_txt(forecast, output_txt)
       IN  /\ output_txt' = r.file
           /\ log' = log \o r.log
    /\ pc' = "done"
    /\ UNCHANGED <<remote, local_xml, now, forecast, old_output, caught,
                   escaped>>

Next == Download \/ DownloadFails \/ Parse \/ Save

Spec == Init /\ [][Next]_vars

----------------------------------------------------------------------------
(* Vocabulary of the properties *)

\* the fetch completed: the local file holds the server's document
Downloaded ==
    /\ local_xml = Some(remote)
    /\ log # <<>>
    /\ log[1] = Info("Downloaded: " \o LOCAL_XML_PATH)

\* parse_forecast was called and returned
ParseReturned == now # None /\ caught = NoError /\ escaped = NoError

Min(S) == CHOOSE i \in S : \A j \in S : i <= j

First(S) == IF S = {} THEN 0 ELSE Min(S)

\* the first area whose description is exactly LOCATION, 0 if none
ExactTarget(d) ==
    First({i \in 1..Len(d.areas) : Str(d.areas[i].description) = LOCATION})

\* the first area whose description is LOCATION once surrounding whitespace
\* is removed, 0 if none
TrimmedTarget(d) ==
    First({i \in 1..Len(d.areas) :
            Str(strip(d.areas[i].description)) = LOCATION})

\* the first area described exactly "Tasmania", 0 if none
SummaryArea(d) ==
    First({i \in 1..Len(d.areas) : Str(d.areas[i].description) = "Tasmania"})

TargetPeriods(d) ==
    IF TrimmedTarget(d) = 0 THEN <<>> ELSE d.areas[TrimmedTarget(d)].periods

Parses(period) == strptime(strip(period.start_time_local)).ok

\* the periods whose start parses and is strictly after n
Eligible(ps, n) ==
    {i \in 1..Len(ps) :
        /\ Parses(ps[i])
        /\ Instant(strptime(strip(ps[i].start_time_local))) > Instant(n)}

\* the issue-time, synoptic and warning lines collected before the target
\* area is looked at
HeaderLines(d) ==
    issue_section(d).lines \o synoptic_section(d).lines
        \o warning_section(d).lines

IssueTimeOf(d) == IF d.amoc = None THEN <<>> ELSE d.amoc[1].issue_time_local

IssueRaises(d) == IssueTimeOf(d) # <<>> /\ ~strptime(IssueTimeOf(d)).ok

Logged(entry) == \E i \in 1..Len(log) : log[i] = entry

----------------------------------------------------------------------------
(* C1: under the time-based policy the period text is taken from the first *)
(* forecast-period of the target area, in document order, whose            *)
(* start-time-local parses and is strictly after the current local time;   *)
(* for periods starting at [T-1h, T+1h, T+5h] that is the T+1h period.     *)
(* Stated for the period lists in which every start-time-local parses, as  *)
(* in the example of the claim; C2 is about the others.                    *)
C1_FirstFuturePeriodIsUsed ==
    (ParseReturned /\ remote.wellformed /\ TrimmedTarget(remote) # 0
        /\ (\A i \in 1..Len(TargetPeriods(remote)) :
                Parses(TargetPeriods(remote)[i]))
        /\ Eligible(TargetPeriods(remote), now[1]) # {})
    => LET ps == TargetPeriods(remote)
           k == Min(Eligible(ps, now[1]))
       IN  forecast = Some(join("\n", HeaderLines(remote)
                                \o period_texts(ps[k].texts).lines))

(* C2: a forecast-period whose start-time-local is missing or malformed is *)
(* skipped with a logged warning and the remaining periods are still       *)
(* considered: a later valid, eligible period is selected and its text     *)
(* returned, wherever the malformed period stands, first included.         *)
C2_MalformedPeriodIsSkipped ==
    LET ps == TargetPeriods(remote) IN
    (ParseReturned /\ remote.wellformed
        /\ \E i \in 1..Len(ps) : \E j \in Eligible(ps, now[1]) :
                ~Parses(ps[i]) /\ i < j)
    => LET k == Min(Eligible(ps, now[1]))
       IN  /\ forecast # None
           /\ forecast = Some(join("\n", HeaderLines(remote)
                                \o period_texts(ps[k].texts).lines))
           /\ \A i \in 1..(k - 1) :
                ~Parses(ps[i]) =>
                    Logged(Warning("Could not parse start-time-local: "
                            \o Str(strip(ps[i].start_time_local))))

(* C3 as stated: a well-formed document with no area whose description is *)
(* LOCATION yields no forecast and leaves the output file as it was.       *)
C3_NoExactAreaNoWrite ==
    (remote.wellformed /\ ExactTarget(remote) = 0)
    => (forecast = None /\ output_txt = old_output)

(* C3 amended: a well-formed document with no area whose description, with *)
(* surrounding whitespace removed, is LOCATION yields no forecast, and the *)
(* output file is as it was before the run in every state of the run,      *)
(* whatever the issue time, synoptic and warning content.                  *)
C3_NoTargetAreaNoWrite ==
    (remote.wellformed /\ TrimmedTarget(remote) = 0)
    => (forecast = None /\ output_txt = old_output)

\* the run ended on such a document that has header content, over a stale
\* output file, after save_forecast_to_txt was called
C3_Witness ==
    /\ pc = "done"
    /\ remote.wellformed /\ TrimmedTarget(remote) = 0
    /\ HeaderLines(remote) # <<>>
    /\ Logged(Info("No forecast text to save."))
    /\ old_output = Some("stale forecast")

(* C4: an issue-time-local that cannot be parsed only omits the issue-time *)
(* line: the run continues, parse_forecast returns what it returns for the *)
(* same document without the issue time, and the output file is written    *)
(* from it; no exception ends the extraction.                              *)
C4_BadIssueTimeIsNotFatal ==
    (pc = "done" /\ Downloaded /\ remote.wellformed /\ IssueRaises(remote))
    => LET r == parse_forecast([remote EXCEPT !.amoc = None], now[1])
       IN  /\ caught = NoError
           /\ forecast = r.ret
           /\ output_txt = save_forecast_to_txt(r.ret, old_output).file

(* C5: when the target area is found but none of its forecast-periods      *)
(* satisfies the selection policy, the area contributes no lines and the   *)
(* result still carries the issue-time, synoptic and warning blocks        *)
(* collected before; it is "nothing extracted" only if there are none.     *)
(* Stated for the target areas none of whose periods has a start that      *)
(* parses, which no reading of the policy lets contribute a period.        *)
C5_HeaderSurvivesMissingPeriod ==
    (ParseReturned /\ remote.wellformed /\ TrimmedTarget(remote) # 0
        /\ \A i \in 1..Len(TargetPeriods(remote)) :
                ~Parses(TargetPeriods(remote)[i]))
    => IF HeaderLines(remote) = <<>>
       THEN forecast \in {None, Some("")}
       ELSE forecast = Some(join("\n", HeaderLines(remote)))

(* C6: main runs fetch, parse, write in that order, each step starting     *)
(* only after the one before it completed; when the fetch fails or the     *)
(* document is not well-formed XML the error is logged, the output file is *)
(* left as it was and main returns without propagating the exception.      *)
C6_FailedRunLeavesOutput ==
    (pc = "done" /\ (~Downloaded \/ ~remote.wellformed))
    => /\ escaped = NoError
       /\ caught \in {TransferError, ParseError}
       /\ log[Len(log)] = Info("An error occurred: " \o caught.msg)
       /\ forecast = None
       /\ output_txt = old_output

C6_StepOrder ==
    /\ (pc' = "parse") => (pc = "fetch" /\ local_xml' = Some(remote))
    /\ (pc' = "save") => (pc = "parse" /\ Downloaded /\ now' # None)
    /\ (output_txt' # output_txt) => (pc = "save" /\ ParseReturned)
    /\ (pc = "done") => (pc' = "done")

C6_FetchParseWriteInOrder == [](C6_FailedRunLeavesOutput) /\ [][C6_StepOrder]_vars

\* the run ended after a download of a document that is not XML
C6_Witness ==
    /\ pc = "done" /\ Downloaded /\ ~remote.wellformed
    /\ caught = ParseError
    /\ old_output = Some("stale forecast")

----------------------------------------------------------------------------
(* What the rendered sections must be, item by item *)

NonBlank(text) == \E i \in 1..Len(text) : text[i] \notin Whitespace

\* the text elements of ts that have content, in document order
WithContent(ts) == SelectSeq(ts, LAMBDA t : NonBlank(t.text))

RenderedPeriod(ts) ==
    [i \in 1..Len(WithContent(ts)) |->
        Str(replace(WithContent(ts)[i].type, "_", " ")) \o ": "
            \o Str(strip(WithContent(ts)[i].text))]

IsSynoptic(t) == t.type = Synoptic /\ NonBlank(t.text)

RECURSIVE RenderedSynoptic(_)
RenderedSynoptic(ts) ==
    IF ts = <<>> THEN <<>>
    ELSE (IF IsSynoptic(Head(ts))
          THEN <<"Weather Situation:", Str(strip(Head(ts).text)), "">>
          ELSE <<>>) \o RenderedSynoptic(Tail(ts))

RenderedWarning(d) ==
    IF d.warnings # <<>> /\ NonBlank(d.warnings[1])
    THEN <<"Warning Summary: " \o Str(strip(d.warnings[1])) \o ".", "">>
    ELSE <<>>

SummaryTexts(d) ==
    IF SummaryArea(d) = 0 \/ d.areas[SummaryArea(d)].periods = <<>>
    THEN <<>>
    ELSE d.areas[SummaryArea(d)].periods[1].texts

(* C7: a text item whose content is empty or whitespace-only renders no    *)
(* line, be it a text of the forecast-period that is used, the synoptic    *)
(* text (whose "Weather Situation:" header is dropped with it) or the      *)
(* warning-summary; every rendered item carries its trimmed content.       *)
C7_BlankTextRendersNothing ==
    (ParseReturned /\ remote.wellformed /\ forecast # None)
    => forecast[1] =
        join("\n", issue_section(remote).lines
                    \o RenderedSynoptic(SummaryTexts(remote))
                    \o RenderedWarning(remote)
                    \o RenderedPeriod(TargetPeriods(remote)[1].texts))

\* a forecast with an issue line was returned from a document whose period,
\* synoptic text and warning-summary each hold whitespace only
C7_Witness ==
    /\ ParseReturned /\ remote.wellformed /\ forecast # None
    /\ forecast[1] # ""
    /\ \E i \in 1..Len(TargetPeriods(remote)[1].texts) :
        LET t == TargetPeriods(remote)[1].texts[i]
        IN  t.text # <<>> /\ ~NonBlank(t.text) /\ t.type # Synoptic
    /\ \E i \in 1..Len(SummaryTexts(remote)) :
        LET t == SummaryTexts(remote)[i]
        IN  t.text # <<>> /\ ~NonBlank(t.text) /\ t.type = Synoptic
    /\ remote.warnings # <<>> /\ remote.warnings[1] # <<>>
    /\ ~NonBlank(remote.warnings[1])

----------------------------------------------------------------------------
(* The issue descriptor, from the characters of the timestamp *)

WrittenHour(s) == Num2(s, 12)

\* the calendar: the weekdays of the dates the issue times of the model fall on
WeekdayOf(s) ==
    LET date == <<Num4(s, 1), Num2(s, 6), Num2(s, 9)>>
    IN  CASE date = <<2024, 5, 1>> -> "Wednesday"
          [] date = <<2024, 2, 29>> -> "Thursday"
          [] date = <<2023, 12, 31>> -> "Sunday"

ExpectedPart(h) ==
    CASE h \in 5..11 -> "morning"
      [] h \in 12..16 -> "afternoon"
      [] h \in 17..20 -> "evening"
      [] OTHER -> "night"

ExpectedHour12(h) ==
    CASE h = 0 -> "12" [] h = 12 -> "12"
      [] h \in 1..11 -> NumStr(h)
      [] h \in 13..23 -> NumStr(h - 12)

ExpectedDescriptor(s) ==
    "Issued " \o WeekdayOf(s) \o " " \o ExpectedPart(WrittenHour(s)) \o " at "
        \o ExpectedHour12(WrittenHour(s)) \o ":"
        \o Str(SubSeq(s, 15, 16))
        \o (IF WrittenHour(s) < 12 THEN "am" ELSE "pm") \o "."

SixThirty == Timestamp(2024, 5, 1, 6, 30, Plus1000Colon)

(* C8: for every parsable issue time, written with hour h and minute m,    *)
(* get_issue_descriptor returns "Issued <Weekday> <part> at                *)
(* <h12>:<mm><am|pm>." with part morning for 5..11, afternoon for 12..16,  *)
(* evening for 17..20 and night otherwise, h12 the 12-hour hour without    *)
(* leading zero, the hour being the one written in the timestamp whatever  *)
(* its UTC offset; "2024-05-01T06:30:00+10:00" gives "Issued Wednesday     *)
(* morning at 6:30am.".  The descriptor is the entry parse_forecast logs   *)
(* first and the first line of the forecast it returns.                    *)
C8_IssueDescriptor ==
    LET s == IssueTimeOf(remote) IN
    (now # None /\ remote.wellformed /\ s # <<>> /\ strptime(s).ok)
    => /\ ParseReturned
       /\ log[2] = Info("Issue time descriptor: " \o ExpectedDescriptor(s))
       /\ get_issue_descriptor(s).value = ExpectedDescriptor(s)
       /\ s = SixThirty =>
            get_issue_descriptor(s).value
                = "Issued Wednesday morning at 6:30am."
       /\ (remote.warnings = <<>> /\ remote.areas = IssueAreas) =>
            forecast = Some(ExpectedDescriptor(s) \o "\n\n"
                                \o "synoptic situation: s\nforecast: a")

\* parse_forecast ran on the document issued 2024-05-01T06:30:00+10:00
C8_Witness ==
    /\ ParseReturned
    /\ IssueTimeOf(remote) = SixThirty
    /\ Logged(Info("Issue time descriptor: "
                    \o "Issued Wednesday morning at 6:30am."))

\* and on one issued at 12:59 with the offset -03:30
C8_WitnessNoon ==
    /\ ParseReturned
    /\ IssueTimeOf(remote) = Timestamp(2024, 2, 29, 12, 59, Minus0330Colon)
    /\ Logged(Info("Issue time descriptor: "
                    \o "Issued Thursday afternoon at 12:59pm."))

----------------------------------------------------------------------------
(* What parse_forecast returns when area t is taken as the target area and *)
(* area u as the summary area (0: no such area)                            *)

ResultWith(d, t, u) ==
    IF t = 0 \/ d.areas[t].periods = <<>> \/ ~Parses(d.areas[t].periods[1])
    THEN None
    ELSE Some(join("\n",
            issue_section(d).lines
                \o (IF u = 0 \/ d.areas[u].periods = <<>> THEN <<>>
                    ELSE RenderedSynoptic(d.areas[u].periods[1].texts))
                \o RenderedWarning(d)
                \o RenderedPeriod(d.areas[t].periods[1].texts)))

(* C9 as stated: the period text comes only from the first area whose      *)
(* description equals LOCATION by exact match, the synoptic text only from *)
(* the first area described "Tasmania"; no later area contributes a line.  *)
C9_FirstExactMatchIsUsed ==
    (ParseReturned /\ remote.wellformed)
    => forecast = ResultWith(remote, ExactTarget(remote), SummaryArea(remote))

(* C9 amended: the period text comes only from the first area, in document *)
(* order, whose description is LOCATION once leading and trailing          *)
(* whitespace is removed, the synoptic text only from the first area       *)
(* described exactly "Tasmania"; a later area with the same description    *)
(* never contributes a line, even when the first match has no              *)
(* forecast-period or no usable text.                                      *)
C9_FirstMatchIsUsed ==
    (ParseReturned /\ remote.wellformed)
    => forecast = ResultWith(remote, TrimmedTarget(remote), SummaryArea(remote))

\* parse_forecast returned on a document with a summary area and two target
\* areas, the first padded and without usable text, the second with text
C9_Witness ==
    /\ ParseReturned /\ remote.wellformed
    /\ SummaryArea(remote) # 0
    /\ \E i, j \in 1..Len(remote.areas) :
        /\ i = TrimmedTarget(remote) /\ i < j
        /\ remote.areas[i].description # LocationDesc
        /\ remote.areas[j].description = LocationDesc
        /\ remote.areas[i].periods # <<PeriodA>>
        /\ remote.areas[j].periods = <<PeriodA>>

(* C10: for a well-formed document whose issue time parses or is absent,   *)
(* parse_forecast returns a string if and only if the first matching       *)
(* target area has at least one forecast-period and the start-time-local   *)
(* of its first forecast-period parses; the period text lines of the       *)
(* string are those of that first period, in the order of its text items,  *)
(* whatever the current time and the start times of the other periods.     *)
C10_FirstPeriodDecides ==
    LET ps == TargetPeriods(remote) IN
    (now # None /\ remote.wellformed /\ ~IssueRaises(remote))
    => /\ ParseReturned
       /\ forecast # None <=> (ps # <<>> /\ Parses(ps[1]))
       /\ forecast # None =>
            forecast[1] = join("\n", HeaderLines(remote)
                                \o RenderedPeriod(ps[1].texts))

\* a string was returned at T for periods starting at [T-1h, T+1h, T+5h]
C10_Witness ==
    /\ ParseReturned /\ now = Some(strptime(May1(10)))
    /\ Len(TargetPeriods(remote)) = 3
    /\ TargetPeriods(remote)[1].start_time_local = May1(9)
    /\ TargetPeriods(remote)[2].start_time_local = May1(11)
    /\ TargetPeriods(remote)[3].start_time_local = May1(15)
    /\ forecast = Some("forecast: nine")

=============================================================================
